---- MODULE Spec2Model ----
(***************************************************************************)
(* gomainevents: the Listener worker pool (listener.go, newest revision)   *)
(* driving the SQS Provider (sqs/provider.go, sqs/event.go, newest         *)
(* revision) against a remote queue.                                       *)
(*                                                                         *)
(* Goroutines: the supervisor (Listener.Listen), the worker goroutines it  *)
(* launches, and the Provider's poll loop.  Worker goroutines are          *)
(* anonymous and interchangeable, so the pool is kept as a bag of local    *)
(* states (program position + locals).                                     *)
(*                                                                         *)
(* The environment (the caller's setup, the remote queue, the scheduler's  *)
(* tearing of the unsynchronised workers++ / workers--, the halt signal)   *)
(* is bounded by a budget that Init draws from Scenarios.                  *)
(***************************************************************************)
EXTENDS Integers, Sequences, FiniteSets, Bags, TLC

(* ---------------------------- bounds ---------------------------------- *)
\* Config.MaximumRetryCount handed to NewProvider (0 = not set).
ConfigMaximumRetryCount == 1
\* Largest number of messages one ReceiveMessage call returns.
MaxBatch == 3
\* Largest number of handlers registered under one name.
MaxHandlers == 2
\* Most messages the remote queue hands out in one run.
MaxDeliveries == 5
\* Most remote calls that fail in one run.
MaxFaults == 2
\* Most workers++ / workers-- whose read and write are torn apart in one run.
MaxRaces == 2
\* Largest ordinary retry count of the events and messages given to the
\* functions examined on their own.
MaxRetryInput == 16

(* ------------------------ program constants --------------------------- *)
DefaultMaximumRetryCount == 25
WorkersPerHandler == 4
EventsBuffer == 100
ErrorsBuffer == 1
DoneBuffer == 1
MaxDelaySeconds == 900

(* ----------------------------- inputs --------------------------------- *)
\* NewProvider: the configured ceiling, or the default when not positive.
maximumRetryCount ==
  IF ConfigMaximumRetryCount > 0 THEN ConfigMaximumRetryCount
  ELSE DefaultMaximumRetryCount

\* Provider.MaximumRetryCount()
MaximumRetryCount == maximumRetryCount

\* A raw remote message.  attr: the RetryCount message attribute
\* ("absent", "num" with value rc, or "bad" = not an integer);
\* body: "ok", or which JSON layer is malformed.
Message(id, name, attr, rc, body) ==
  [id |-> id, name |-> name, attr |-> attr, rc |-> rc, body |-> body]

\* Messages the remote queue may hold at start: a first delivery for a name
\* with handlers, one already past the retry ceiling, one for a name without
\* handlers, one with a malformed body, one with an unparsable RetryCount.
Fresh == Message(1, "a", "absent", 0, "ok")
Poison == Message(2, "a", "num", maximumRetryCount + 1, "ok")
Unhandled == Message(3, "b", "absent", 0, "ok")
BadBody == Message(4, "a", "absent", 0, "badOuter")
BadAttr == Message(5, "a", "bad", 0, "ok")

\* One run's environment: what the remote queue holds, how many handlers
\* the caller registers for name "a", and the budgets.
Scenario(msgs, nh, deliveries, faults, races, halts) ==
  [msgs |-> msgs, handlers |-> nh, deliveries |-> deliveries,
   faults |-> faults, races |-> races, halts |-> halts]

Scenarios ==
  { \* a failing event walks the retry chain; the counter is raced
    Scenario({Fresh}, 1, MaxDeliveries - 2, 0, MaxRaces, 0),
    \* an event past the ceiling is redelivered again and again
    Scenario({Poison}, 1, MaxDeliveries, 0, 0, 0),
    \* two malformed messages and a valid one
    Scenario({BadBody, BadAttr, Fresh}, MaxHandlers, MaxDeliveries - 2, 0, 0, 0),
    \* remote calls fail
    Scenario({Fresh, BadBody}, 1, MaxDeliveries - 3, MaxFaults, 0, 0),
    \* the listener is halted while events are under way
    Scenario({Fresh, Unhandled}, 1, MaxDeliveries - 3, MaxFaults - 1, 0, 1),
    \* no handler is registered
    Scenario({Fresh}, 0, MaxDeliveries - 4, 0, 0, 1) }

NoEvent == [id |-> 0, name |-> "", retryCount |-> 0]

DecodeFails_AttrOnly(m) == m.attr = "bad"

\* DecodeEvent: error when the RetryCount attribute does not parse or a JSON
\* layer is malformed; retryCount defaults to 0 when the attribute is absent.
DecodeFails(m) == m.attr = "bad" \/ m.body # "ok"

DecodeEvent(m) ==
  [id |-> m.id, name |-> m.name,
   retryCount |-> IF m.attr = "absent" THEN 0 ELSE m.rc]

\* No function has been called on its own.
NoCall == [op |-> "none"]

VARIABLES
  handlers,      \* Listener.handlers: name -> sequence of handler ids
  errorHandler,  \* Listener.errorHandler: "nil", or what was stored in it
  ldone,         \* Listener.done: number of buffered halt signals
  lpc,           \* Listen: "setup", "ready", "select", "returned", "crashed"
  max,           \* Listen's local max
  workers,       \* Listen's local workers, shared with the worker closures
  workerDone,    \* workerDone channel: number of buffered signals
  ws,            \* bag of worker goroutine states
  events,        \* Provider.events: buffered events
  errors,        \* Provider.errors: number of buffered errors
  closed,        \* TRUE once Stop closed events and errors
  pdone,         \* Provider.done: number of buffered signals
  ppc,           \* poll loop: "off", "select", "recvErr", "batch", "returned", "crashed"
  batch,         \* resp.Messages still to be processed by the poll loop
  visible,       \* remote queue: messages available to ReceiveMessage
  inflight,      \* remote queue: messages received and not deleted
  panic,         \* "none", or why the process crashed
  budget,        \* what the environment may still do (a Scenario)
  unit           \* the last call of a function examined on its own: what was
                 \* called, its argument and its result

vars == <<handlers, errorHandler, ldone, lpc, max, workers, workerDone, ws,
          events, errors, closed, pdone, ppc, batch, visible, inflight, panic,
          budget, unit>>

\* every variable of the running program
mvars == <<handlers, errorHandler, ldone, lpc, max, workers, workerDone, ws,
           events, errors, closed, pdone, ppc, batch, visible, inflight, panic,
           budget>>

lvars == <<handlers, errorHandler, ldone, lpc, max>>
pvars == <<pdone, ppc, batch>>
rvars == <<visible, inflight>>

Spend(what) ==
  /\ budget' = [budget EXCEPT ![what] = @ - 1]
  /\ UNCHANGED unit

\* A send on a closed channel ends the process: every goroutine is gone and
\* only the remote queue keeps its state.
Crash(why) ==
  /\ panic' = why
  /\ lpc' = "crashed"
  /\ ppc' = "crashed"
  /\ ws' = EmptyBag
  /\ batch' = <<>>
  /\ events' = <<>>
  /\ errors' = 0
  /\ workers' = 0
  /\ workerDone' = 0
  /\ ldone' = 0
  /\ pdone' = 0
  /\ UNCHANGED <<handlers, errorHandler, max, closed, rvars, budget, unit>>

(* ------------------- integers, strconv, DelaySeconds ------------------ *)
\* Go's int on a 32-bit build (the widest the checker's integers hold; on a
\* 64-bit build the same happens at 2^63 - 1).
GoMaxInt == 2147483647
GoMinInt == (-GoMaxInt) - 1

\* x + 1 on Go's int: wraps around at the largest value.
IntInc(x) == IF x = GoMaxInt THEN GoMinInt ELSE x + 1

\* int64(math.Min(math.Pow(2, float64(e)), float64(cap))) for cap >= 1:
\* a negative exponent gives a power below 1, which int64() truncates to 0;
\* otherwise double from 1 until e doublings are made or cap is passed.
TruncMinPow2(e, cap) ==
  LET RECURSIVE Up(_, _)
      Up(i, acc) == IF acc >= cap THEN cap
                    ELSE IF i = e THEN acc
                    ELSE Up(i + 1, 2 * acc)
  IN IF e < 0 THEN 0 ELSE Up(0, 1)

\* Event.DelaySeconds: int64(min(2^(retryCount+1), 15*60))
DelaySeconds(ev) == TruncMinPow2(IntInc(ev.retryCount), MaxDelaySeconds)

\* Decimal strings are sequences of one-character strings.
DigitValue ==
  [c \in {"0", "1", "2", "3", "4", "5", "6", "7", "8", "9"} |->
     CASE c = "0" -> 0 [] c = "1" -> 1 [] c = "2" -> 2 [] c = "3" -> 3
       [] c = "4" -> 4 [] c = "5" -> 5 [] c = "6" -> 6 [] c = "7" -> 7
       [] c = "8" -> 8 [] c = "9" -> 9]

DigitChar == <<"0", "1", "2", "3", "4", "5", "6", "7", "8", "9">>

\* strconv.Itoa: the decimal digits of n, "-" in front of a negative n.
\* The digits of a negative n are taken without negating n.
Itoa(n) ==
  LET RECURSIVE Pos(_)
      Pos(m) == IF m < 10 THEN <<DigitChar[m + 1]>>
                ELSE Append(Pos(m \div 10), DigitChar[(m % 10) + 1])
      RECURSIVE Neg(_)
      Neg(m) == LET d == (10 - (m % 10)) % 10
                    rest == (m + d) \div 10
                IN IF rest = 0 THEN <<DigitChar[d + 1]>>
                   ELSE Append(Neg(rest), DigitChar[d + 1])
  IN IF n >= 0 THEN Pos(n) ELSE <<"-">> \o Neg(n)

\* strconv.Atoi: optional sign, then one or more decimal digits, value in
\* the range of int; anything else is an error.  The value is accumulated
\* on the negative side so that the smallest int parses.
Atoi(s) ==
  LET neg == s # <<>> /\ Head(s) = "-"
      body == IF s # <<>> /\ Head(s) \in {"-", "+"} THEN Tail(s) ELSE s
      limit == IF neg THEN GoMinInt ELSE -GoMaxInt
      RECURSIVE Acc(_, _)
      Acc(t, a) ==
        IF t = <<>> THEN [err |-> FALSE, n |-> IF neg THEN a ELSE -a]
        ELSE IF Head(t) \notin DOMAIN DigitValue THEN [err |-> TRUE]
        ELSE LET d == DigitValue[Head(t)] IN
             IF a < (GoMinInt + 8) \div 10 THEN [err |-> TRUE]
             ELSE IF a * 10 < limit + d THEN [err |-> TRUE]
             ELSE Acc(Tail(t), a * 10 - d)
  IN IF body = <<>> THEN [err |-> TRUE] ELSE Acc(body, 0)

(* --------------------- encoding/json, event codec --------------------- *)
\* A JSON text is kept as its syntax: a string, a number, null, an object
\* (its members in the order written, duplicate and unknown keys
\* included), a string whose content is itself a JSON text or not
\* ("text"), or something that is no JSON at all.
JStr(v) == [t |-> "str", v |-> v]
JNum(v) == [t |-> "num", v |-> v]
JNull == [t |-> "null"]
JObj(members) == [t |-> "obj", m |-> members]
JText(content) == [t |-> "text", c |-> content]
JGarbage == [t |-> "garbage"]
\* the content of an empty Go string
JEmpty == [t |-> "empty"]

\* Keys the texts use, and strings.EqualFold on them.
Fold ==
  [k \in {"Message", "message", "name", "NAME", "data", "Data", "extra"} |->
     CASE k \in {"Message", "message"} -> "message"
       [] k \in {"name", "NAME"} -> "name"
       [] k \in {"data", "Data"} -> "data"
       [] OTHER -> k]

\* Map keys in the order json.Marshal writes them (sorted).
KeyOrder == <<"k", "l">>

\* A JSON value decoded into interface{}.
RECURSIVE GoValue(_)
\* A JSON object decoded into a map[string]interface{} that already holds
\* into: later members overwrite earlier ones.
RECURSIVE IntoMap(_, _)
IntoMap(members, into) ==
  IF members = <<>> THEN into
  ELSE LET k == Head(members)[1]
           v == GoValue(Head(members)[2])
           rest == [x \in DOMAIN into \ {k} |-> into[x]]
       IN IntoMap(Tail(members), rest @@ (k :> v))

GoValue(j) ==
  CASE j.t = "str" -> [go |-> "string", v |-> j.v]
    [] j.t = "text" -> [go |-> "jsonstring", v |-> j.c]
    [] j.t = "num" -> [go |-> "float64", v |-> j.v]
    [] j.t = "obj" -> [go |-> "map", v |-> IntoMap(j.m, <<>>)]
    [] OTHER -> [go |-> "nil"]

\* json.Marshal of an interface{} value.
RECURSIVE JValue(_)
JValue(g) ==
  CASE g.go = "string" -> JStr(g.v)
    [] g.go = "jsonstring" -> JText(g.v)
    [] g.go = "float64" -> JNum(g.v)
    [] g.go = "map" ->
         JObj([i \in 1..Len(SelectSeq(KeyOrder, LAMBDA k : k \in DOMAIN g.v)) |->
                <<SelectSeq(KeyOrder, LAMBDA k : k \in DOMAIN g.v)[i],
                  JValue(g.v[SelectSeq(KeyOrder, LAMBDA k : k \in DOMAIN g.v)[i]])>>])
    [] OTHER -> JNull

\* A nil map.
NilMap == [go |-> "nil"]

\* json.Unmarshal(text, &encodedMessage{}): Message is the only field.
UnmarshalMessage(text) ==
  LET RECURSIVE Fill(_, _)
      Fill(members, msg) ==
        IF members = <<>> THEN [err |-> FALSE, Message |-> msg]
        ELSE LET k == Head(members)[1]
                 v == Head(members)[2]
             IN IF Fold[k] # "message" \/ v.t = "null" THEN Fill(Tail(members), msg)
                ELSE IF v.t = "text" THEN Fill(Tail(members), v.c)
                ELSE IF v.t = "str" THEN Fill(Tail(members), JGarbage)
                ELSE [err |-> TRUE]
  IN CASE text.t = "null" -> [err |-> FALSE, Message |-> JEmpty]
       [] text.t = "obj" -> Fill(text.m, JEmpty)
       [] OTHER -> [err |-> TRUE]

\* json.Unmarshal(text, &encodedEvent{}): fields name and data.
UnmarshalEvent(text) ==
  LET RECURSIVE Fill(_, _, _)
      Fill(members, name, data) ==
        IF members = <<>> THEN [err |-> FALSE, Name |-> name, Data |-> data]
        ELSE LET k == Head(members)[1]
                 v == Head(members)[2]
             IN CASE Fold[k] = "name" ->
                       IF v.t = "null" THEN Fill(Tail(members), name, data)
                       ELSE IF v.t = "str" THEN Fill(Tail(members), v.v, data)
                       ELSE [err |-> TRUE]
                  [] Fold[k] = "data" ->
                       IF v.t = "null" THEN Fill(Tail(members), name, NilMap)
                       ELSE IF v.t = "obj"
                            THEN Fill(Tail(members), name,
                                   [go |-> "map",
                                    v |-> IntoMap(v.m, IF data = NilMap THEN <<>> ELSE data.v)])
                       ELSE [err |-> TRUE]
                  [] OTHER -> Fill(Tail(members), name, data)
  IN CASE text.t = "null" -> [err |-> FALSE, Name |-> "", Data |-> NilMap]
       [] text.t = "obj" -> Fill(text.m, "", NilMap)
       [] OTHER -> [err |-> TRUE]

\* An sqs Event with all its fields.
FullEvent(name, data, retryCount, receiptHandle, deduplicationID) ==
  [name |-> name, data |-> data, retryCount |-> retryCount,
   receiptHandle |-> receiptHandle, deduplicationID |-> deduplicationID]

\* An awssqs.Message as DecodeEvent reads it.  dedup: Attributes
\* ["DeduplicationID"]; retry: MessageAttributes["RetryCount"].
RawMessage(handle, dedup, retry, body) ==
  [ReceiptHandle |-> handle, DeduplicationID |-> dedup, RetryCount |-> retry,
   Body |-> body]

\* A *string that is nil, or points to s.
NilString == [kind |-> "nil"]
StringPtr(s) == [kind |-> "string", s |-> s]
\* MessageAttributes has no entry, an entry with a StringValue, or an entry
\* whose StringValue is nil (a Binary attribute).
NoAttribute == [kind |-> "absent"]
StringAttribute(s) == [kind |-> "string", s |-> s]
BinaryAttribute == [kind |-> "nilString"]

\* DecodeEvent on a full message: a panic (nil dereference of StringValue),
\* an error, or the event.
DecodeEventFull(m) ==
  LET parsed == IF m.RetryCount.kind = "string" THEN Atoi(m.RetryCount.s)
                ELSE [err |-> FALSE, n |-> 0]
      outer == UnmarshalMessage(m.Body)
      inner == UnmarshalEvent(outer.Message)
  IN IF m.RetryCount.kind = "nilString" THEN [outcome |-> "panic"]
     ELSE IF parsed.err THEN [outcome |-> "error"]
     ELSE IF outer.err THEN [outcome |-> "error"]
     ELSE IF inner.err THEN [outcome |-> "error"]
     ELSE [outcome |-> "event",
           event |-> FullEvent(inner.Name, inner.Data, parsed.n,
                               m.ReceiptHandle, m.DeduplicationID)]

EncodeEvent_NoData(e) ==
  JObj(<<<<"Message", JText(JObj(<<<<"name", JStr(e.name)>>>>))>>>>)

\* Event.EncodeEvent: {"Message": "<{"name": ..., "data": ...}>"}
EncodeEvent(e) ==
  JObj(<<<<"Message",
           JText(JObj(<<<<"name", JStr(e.name)>>, <<"data", JValue(e.data)>>>>))>>>>)

\* Provider.Requeue: the SendMessageInput it builds for evt.
SendMessageInput(evt) ==
  [DelaySeconds |-> DelaySeconds(evt),
   RetryCount |-> StringAttribute(Itoa(IntInc(evt.retryCount))),
   MessageBody |-> EncodeEvent(evt),
   MessageDeduplicationId |-> evt.deduplicationID]

\* A nil *Config, and a Config.
NilConfig == [nil |-> TRUE]
Config(client, url, maxRetry) ==
  [nil |-> FALSE, SQSClient |-> client, QueueURL |-> url, MaximumRetryCount |-> maxRetry]
NilProvider == [nil |-> TRUE]

NewProvider_NoURLCheck(config) ==
  IF config = NilConfig
  THEN [provider |-> NilProvider, err |-> "Configuration is required"]
  ELSE [provider |->
          [nil |-> FALSE,
           sqsClient |-> IF config.SQSClient = "nil" THEN "default" ELSE config.SQSClient,
           queueURL |-> config.QueueURL,
           events |-> EventsBuffer, errors |-> ErrorsBuffer, done |-> DoneBuffer,
           maximumRetryCount |-> IF config.MaximumRetryCount > 0
                                 THEN config.MaximumRetryCount
                                 ELSE DefaultMaximumRetryCount],
        err |-> "nil"]

\* NewProvider: the Provider (its client, its channels by capacity, its
\* ceiling) and the error it returns.
NewProvider(config) ==
  IF config = NilConfig
  THEN [provider |-> NilProvider, err |-> "Configuration is required"]
  ELSE IF config.QueueURL = ""
  THEN [provider |-> NilProvider, err |-> "QueueURL is required"]
  ELSE [provider |->
          [nil |-> FALSE,
           sqsClient |-> IF config.SQSClient = "nil" THEN "default" ELSE config.SQSClient,
           queueURL |-> config.QueueURL,
           events |-> EventsBuffer, errors |-> ErrorsBuffer, done |-> DoneBuffer,
           maximumRetryCount |-> IF config.MaximumRetryCount > 0
                                 THEN config.MaximumRetryCount
                                 ELSE DefaultMaximumRetryCount],
        err |-> "nil"]

(* ------------------------- worker goroutines -------------------------- *)
\* A worker goroutine: position, the event it holds, the value of workers it
\* read for workers++ / workers--, the result of handleEvent, and the calls
\* it made for the event it holds: Provider.Delete, Provider.Requeue, the
\* call through l.errorHandler, and the runs of the registered callback;
\* the handlers handleEvent invoked for it, in order, and the handler whose
\* error handleEvent returned (0: nil).
Worker(pc, ev, tmp, res, nDel, nReq, nRep) ==
  [pc |-> pc, ev |-> ev, tmp |-> tmp, res |-> res,
   nDel |-> nDel, nReq |-> nReq, nRep |-> nRep, nCallback |-> 0,
   called |-> <<>>, err |-> 0]

\* go func() { defer func() { workers-- }(); workers++; l.worker(...) }()
NewWorker == Worker("start", NoEvent, 0, "none", 0, 0, 0)

\* A worker waiting in its select, and one that has returned from l.worker.
Idle == Worker("select", NoEvent, 0, "none", 0, 0, 0)
Left == Worker("decR", NoEvent, 0, "none", 0, 0, 0)

\* A worker that has returned from l.worker because the stream was closed
\* ("Event provider closed.").
LeftOnClose == Worker("decR", NoEvent, 0, "closed", 0, 0, 0)

At(w, pc) == [w EXCEPT !.pc = pc]

Running == BagToSet(ws)
Move(w, v) == (ws (-) SetToBag({w})) (+) SetToBag({v})
Spawn(n) == ws (+) [w \in {NewWorker} |-> n]

\* Positions inside the for/select loop of Listener.worker, before the
\* completion signal: the worker may still consume or is processing an event.
InLoop ==
  {"select", "delete", "deleteErr", "requeue", "rqDelErr", "rqSend", "rqSendErr"}

\* Positions of a worker inside p.errors <- err.
ErrorSends == {"deleteErr", "rqDelErr", "rqSendErr"}

\* Number of goroutines of the pool whose position is in S.
CountAt(S) ==
  LET RECURSIVE Sum(_)
      Sum(T) == IF T = {} THEN 0
                ELSE LET w == CHOOSE x \in T : TRUE
                     IN CopiesIn(w, ws) + Sum(T \ {w})
  IN Sum({w \in Running : w.pc \in S})

\* Listener.handleEvent: nil when no handler is registered for the name,
\* otherwise the first error among the handlers in registration order.
\* failing: the registered handlers that return an error for this event.
RECURSIVE RunHandlers_NoShortCircuit(_, _, _, _)
RunHandlers_NoShortCircuit(fns, failing, called, err) ==
  IF fns = <<>> THEN [called |-> called, err |-> err]
  ELSE RunHandlers_NoShortCircuit(Tail(fns), failing, Append(called, Head(fns)),
         IF Head(fns) \in failing /\ err = 0 THEN Head(fns) ELSE err)

\* for _, fn := range handlers { if err := fn(event); err != nil { return err } }
\* fns: the handlers still to be invoked; called: those invoked so far.
RECURSIVE RunHandlers(_, _, _, _)
RunHandlers(fns, failing, called, err) ==
  IF fns = <<>> THEN [called |-> called, err |-> err]
  ELSE IF Head(fns) \in failing
       THEN [called |-> Append(called, Head(fns)), err |-> Head(fns)]
       ELSE RunHandlers(Tail(fns), failing, Append(called, Head(fns)), err)

Dispatch_MissingIsFailure(ev, failing) ==
  IF ev.name \notin DOMAIN handlers THEN [called |-> <<>>, err |-> 1]
  ELSE RunHandlers(handlers[ev.name], failing, <<>>, 0)

\* The run of Listener.handleEvent for ev: the handlers invoked and the
\* handler whose error is returned.
Dispatch(ev, failing) ==
  IF ev.name \notin DOMAIN handlers THEN [called |-> <<>>, err |-> 0]
  ELSE RunHandlers(handlers[ev.name], failing, <<>>, 0)

handleEvent(ev, failing) ==
  IF Dispatch(ev, failing).err = 0 THEN "ok" ELSE "fail"

MayRequeue_Strict(ev) == ev.retryCount < MaximumRetryCount

MayRequeue_OffByOne(ev) == ev.retryCount <= MaximumRetryCount + 1

\* The retry test of Listener.worker.
MayRequeue(ev) == ev.retryCount <= MaximumRetryCount

\* workers++ with nothing between its read and its write
W_Inc(w) ==
  /\ panic = "none"
  /\ w.pc = "start"
  /\ workers' = workers + 1
  /\ ws' = Move(w, Idle)
  /\ UNCHANGED <<lvars, workerDone, events, errors, closed, pvars, rvars, panic, budget, unit>>

\* workers++ torn by the scheduler: the read
W_IncRead(w) ==
  /\ panic = "none"
  /\ w.pc = "start"
  /\ budget.races > 0
  /\ Spend("races")
  /\ ws' = Move(w, [w EXCEPT !.pc = "incW", !.tmp = workers])
  /\ UNCHANGED <<lvars, workers, workerDone, events, errors, closed, pvars, rvars, panic>>

\* workers++ torn by the scheduler: the write; l.worker starts its loop
W_IncWrite(w) ==
  /\ panic = "none"
  /\ w.pc = "incW"
  /\ workers' = w.tmp + 1
  /\ ws' = Move(w, Idle)
  /\ UNCHANGED <<lvars, workerDone, events, errors, closed, pvars, rvars, panic, budget, unit>>

\* The branch l.worker takes on the result of handleEvent: Provider.Delete
\* on success; on failure Provider.Requeue while the retry count allows it,
\* else the call of l.errorHandler.
WorkerBranch(ev, res) ==
  IF res = "ok" THEN Worker("delete", ev, 0, res, 1, 0, 0)
  ELSE IF MayRequeue(ev)
       THEN Worker("requeue", ev, 0, res, 0, 1, 0)
       ELSE Worker("report", ev, 0, res, 0, 0, 0)

\* l.errorHandler(fmt.Errorf("Event exceeded maximum retry count ...")):
\* the callback given to RegisterErrorHandler runs only if the field holds it.
Report(w) ==
  [w EXCEPT !.pc = "signal", !.nRep = @ + 1,
            !.nCallback = IF errorHandler = "fn" THEN @ + 1 ELSE @]

\* The handlers registered for a name, by their position in its list.
Registered(name) ==
  IF name \in DOMAIN handlers THEN 1..Len(handlers[name]) ELSE {}

W_Receive_Peek(w) ==
  /\ panic = "none"
  /\ w.pc = "select"
  /\ events # <<>>
  /\ events' = events
  /\ \E failing \in SUBSET Registered(Head(events).name) :
       LET d == Dispatch(Head(events), failing)
           b == WorkerBranch(Head(events), handleEvent(Head(events), failing))
           v == [b EXCEPT !.called = d.called, !.err = d.err] IN
       ws' = Move(w, IF v.pc = "report" THEN Report(v) ELSE v)
  /\ UNCHANGED <<lvars, workers, workerDone, errors, closed, pvars, rvars, panic, budget, unit>>

\* case event, ok := <-events (ok), l.handleEvent(event) and the branch on
\* its result, up to the Provider call or the completion signal.
W_Receive(w) ==
  /\ panic = "none"
  /\ w.pc = "select"
  /\ events # <<>>
  /\ events' = Tail(events)
  /\ \E failing \in SUBSET Registered(Head(events).name) :
       LET d == Dispatch(Head(events), failing)
           b == WorkerBranch(Head(events), handleEvent(Head(events), failing))
           v == [b EXCEPT !.called = d.called, !.err = d.err] IN
       ws' = Move(w, IF v.pc = "report" THEN Report(v) ELSE v)
  /\ UNCHANGED <<lvars, workers, workerDone, errors, closed, pvars, rvars, panic, budget, unit>>

W_Closed_Signals(w) ==
  /\ panic = "none"
  /\ w.pc = "select"
  /\ events = <<>>
  /\ closed
  /\ workerDone < max
  /\ workerDone' = workerDone + 1
  /\ ws' = Move(w, LeftOnClose)
  /\ UNCHANGED <<lvars, workers, events, errors, closed, pvars, rvars, panic, budget, unit>>

\* case event, ok := <-events  (!ok): return without a completion signal
W_Closed(w) ==
  /\ panic = "none"
  /\ w.pc = "select"
  /\ events = <<>>
  /\ closed
  /\ ws' = Move(w, LeftOnClose)
  /\ UNCHANGED <<lvars, workers, workerDone, events, errors, closed, pvars, rvars, panic, budget, unit>>

\* Remote DeleteMessage for the event's receipt handle.
DeleteMessage(ev) == {m \in inflight : m.id # ev.id \/ DecodeEvent(m) # ev}

AfterCall_ExitAfterDelete(pc) ==
  CASE pc \in {"delete", "deleteErr"} -> <<"signal", "deleteErr">>
    [] pc \in {"requeue", "rqDelErr"} -> <<"rqSend", "rqDelErr">>
    [] pc \in {"rqSend", "rqSendErr"} -> <<"signal", "rqSendErr">>

\* Where a worker is after each Provider step: <<next position when the
\* remote call succeeds, position of the error send when it fails>>.
AfterCall(pc) ==
  CASE pc \in {"delete", "deleteErr"} -> <<"select", "deleteErr">>
    [] pc \in {"requeue", "rqDelErr"} -> <<"rqSend", "rqDelErr">>
    [] pc \in {"rqSend", "rqSendErr"} -> <<"signal", "rqSendErr">>

\* The worker once the Provider step it is in is over: after Delete it is
\* back in its select ("Successfully processed."), inside Requeue it goes on
\* to SendMessage, after Requeue it signals its completion.
Returned(w) ==
  IF AfterCall(w.pc)[1] = "select" THEN Idle ELSE At(w, AfterCall(w.pc)[1])

\* Provider.Delete (called by the worker, or by Provider.Requeue): the remote
\* DeleteMessage succeeds
W_Delete(w) ==
  /\ panic = "none"
  /\ w.pc \in {"delete", "requeue"}
  /\ inflight' = DeleteMessage(w.ev)
  /\ ws' = Move(w, Returned(w))
  /\ UNCHANGED <<lvars, workers, workerDone, events, errors, closed, pvars, visible, panic, budget, unit>>

\* Provider.Delete: the remote DeleteMessage fails, the error is to be sent
W_DeleteFail(w) ==
  /\ panic = "none"
  /\ w.pc \in {"delete", "requeue"}
  /\ budget.faults > 0
  /\ Spend("faults")
  /\ ws' = Move(w, At(w, AfterCall(w.pc)[2]))
  /\ UNCHANGED <<lvars, workers, workerDone, events, errors, closed, pvars, rvars, panic>>

\* The message Provider.Requeue sends: same logical event, RetryCount
\* attribute retryCount+1, body re-encoded from name and data.
RequeueMessage(ev) == Message(ev.id, ev.name, "num", ev.retryCount + 1, "ok")

\* Provider.Requeue: the remote SendMessage succeeds
W_RequeueSend(w) ==
  /\ panic = "none"
  /\ w.pc = "rqSend"
  /\ visible' = visible \cup {RequeueMessage(w.ev)}
  /\ ws' = Move(w, Returned(w))
  /\ UNCHANGED <<lvars, workers, workerDone, events, errors, closed, pvars, inflight, panic, budget, unit>>

\* Provider.Requeue: the remote SendMessage fails, the error is to be sent
W_RequeueSendFail(w) ==
  /\ panic = "none"
  /\ w.pc = "rqSend"
  /\ budget.faults > 0
  /\ Spend("faults")
  /\ ws' = Move(w, At(w, AfterCall(w.pc)[2]))
  /\ UNCHANGED <<lvars, workers, workerDone, events, errors, closed, pvars, rvars, panic>>

\* p.errors <- err inside Provider.Delete / Provider.Requeue: blocks while
\* the buffer is full
W_SendError(w) ==
  /\ panic = "none"
  /\ w.pc \in ErrorSends
  /\ ~closed
  /\ errors < ErrorsBuffer
  /\ errors' = errors + 1
  /\ ws' = Move(w, Returned(w))
  /\ UNCHANGED <<lvars, workers, workerDone, events, closed, pvars, rvars, panic, budget, unit>>

\* p.errors <- err on the closed channel: the process crashes
W_SendErrorClosed(w) ==
  /\ panic = "none"
  /\ w.pc \in ErrorSends
  /\ closed
  /\ Crash("errors")

\* workerDone <- true; return
W_Signal(w) ==
  /\ panic = "none"
  /\ w.pc = "signal"
  /\ workerDone < max
  /\ workerDone' = workerDone + 1
  /\ ws' = Move(w, Left)
  /\ UNCHANGED <<lvars, workers, events, errors, closed, pvars, rvars, panic, budget, unit>>

\* deferred workers-- with nothing between its read and its write; the
\* goroutine ends
W_Dec(w) ==
  /\ panic = "none"
  /\ w.pc = "decR"
  /\ workers' = workers - 1
  /\ ws' = ws (-) SetToBag({w})
  /\ UNCHANGED <<lvars, workerDone, events, errors, closed, pvars, rvars, panic, budget, unit>>

\* deferred workers-- torn by the scheduler: the read
W_DecRead(w) ==
  /\ panic = "none"
  /\ w.pc = "decR"
  /\ budget.races > 0
  /\ Spend("races")
  /\ ws' = Move(w, [w EXCEPT !.pc = "decW", !.tmp = workers])
  /\ UNCHANGED <<lvars, workers, workerDone, events, errors, closed, pvars, rvars, panic>>

\* deferred workers-- torn by the scheduler: the write; the goroutine ends
W_DecWrite(w) ==
  /\ panic = "none"
  /\ w.pc = "decW"
  /\ workers' = w.tmp - 1
  /\ ws' = ws (-) SetToBag({w})
  /\ UNCHANGED <<lvars, workerDone, events, errors, closed, pvars, rvars, panic, budget, unit>>

(* ------------------------------ Listener ------------------------------ *)
\* RegisterHandler(name, fn): append fn to the handlers of name.  Each
\* registered function is named by its position in the list.
RegisterHandler(name) ==
  /\ panic = "none"
  /\ lpc = "setup"
  /\ IF name \in DOMAIN handlers
     THEN /\ Len(handlers[name]) < budget.handlers
          /\ handlers' = [handlers EXCEPT ![name] = Append(@, Len(@) + 1)]
     ELSE /\ budget.handlers > 0
          /\ handlers' = handlers @@ (name :> <<1>>)
  /\ UNCHANGED <<errorHandler, ldone, lpc, max, workers, workerDone, ws,
                 events, errors, closed, pvars, rvars, panic, budget, unit>>

\* What RegisterErrorHandler(fn) stores in l.errorHandler: the right-hand
\* side of its assignment is the type name ErrorHandler, not the argument fn.
StoredErrorHandler == "ErrorHandler"

\* The program registers its error callback after its handlers and before
\* it calls Listen.
RegisterErrorHandler ==
  /\ panic = "none"
  /\ lpc = "setup"
  /\ "a" \in DOMAIN handlers => Len(handlers["a"]) = budget.handlers
  /\ "a" \notin DOMAIN handlers => budget.handlers = 0
  /\ errorHandler' = StoredErrorHandler
  /\ lpc' = "ready"
  /\ UNCHANGED <<handlers, ldone, max, workers, workerDone, ws,
                 events, errors, closed, pvars, rvars, panic, budget, unit>>

\* Listen's pool capacity: len(l.handlers)*4
Capacity == Cardinality(DOMAIN handlers) * WorkersPerHandler

\* Listen up to its select loop: Provider.Start launches the poll loop,
\* workers, max := 0, len(l.handlers)*4, and max worker goroutines are launched.
Listen ==
  /\ panic = "none"
  /\ lpc = "ready"
  /\ lpc' = "select"
  /\ ppc' = "select"
  /\ workers' = 0
  /\ max' = Capacity
  /\ ws' = IF Capacity > 0 THEN Spawn(Capacity) ELSE ws
  /\ UNCHANGED <<handlers, errorHandler, ldone, workerDone, events, errors,
                 closed, pdone, batch, rvars, panic, budget, unit>>

\* The capacity test of the supervisor before it restarts a worker.
BelowCapacity == workers < max

Restarted_FillGap == IF BelowCapacity THEN max - workers ELSE 0

\* How many workers the supervisor launches for one completion signal.
Restarted == IF BelowCapacity THEN 1 ELSE 0

L_WorkerDone_KeepSignal ==
  /\ panic = "none"
  /\ lpc = "select"
  /\ workerDone > 0
  /\ ws' = IF Restarted > 0 THEN Spawn(Restarted) ELSE ws
  /\ UNCHANGED <<lvars, workers, workerDone, events, errors, closed, pvars, rvars, panic, budget, unit>>

\* case <-workerDone: restart a worker if workers < max
L_WorkerDone ==
  /\ panic = "none"
  /\ lpc = "select"
  /\ workerDone > 0
  /\ workerDone' = workerDone - 1
  /\ ws' = IF Restarted > 0 THEN Spawn(Restarted) ELSE ws
  /\ UNCHANGED <<lvars, workers, events, errors, closed, pvars, rvars, panic, budget, unit>>

L_Halt_NoStop ==
  /\ panic = "none"
  /\ lpc = "select"
  /\ ldone > 0
  /\ ldone' = ldone - 1
  /\ lpc' = "returned"
  /\ UNCHANGED <<handlers, errorHandler, max, workers, workerDone, ws, events,
                 errors, closed, pdone, ppc, batch, rvars, panic, budget, unit>>

\* case <-l.done: l.provider.Stop(); return
\* Provider.Stop: close(p.events); close(p.errors); p.done <- true
L_Halt ==
  /\ panic = "none"
  /\ lpc = "select"
  /\ ldone > 0
  /\ pdone < DoneBuffer
  /\ ldone' = ldone - 1
  /\ closed' = TRUE
  /\ pdone' = pdone + 1
  /\ lpc' = "returned"
  /\ UNCHANGED <<handlers, errorHandler, max, workers, workerDone, ws, events,
                 errors, ppc, batch, rvars, panic, budget, unit>>

\* The external halt signal: a send on l.done (buffer 1).
Halt ==
  /\ panic = "none"
  /\ lpc = "select"
  /\ ldone < DoneBuffer
  /\ budget.halts > 0
  /\ Spend("halts")
  /\ ldone' = ldone + 1
  /\ UNCHANGED <<handlers, errorHandler, lpc, max, workers, workerDone, ws,
                 events, errors, closed, pvars, rvars, panic>>

(* ------------------------- Provider poll loop ------------------------- *)
\* case <-p.done: return
P_Done ==
  /\ panic = "none"
  /\ ppc = "select"
  /\ pdone > 0
  /\ pdone' = pdone - 1
  /\ ppc' = "returned"
  /\ UNCHANGED <<lvars, workers, workerDone, ws, events, errors, closed, batch, rvars, panic, budget, unit>>

\* case err := <-p.errors: a buffered error, or the zero value once closed
P_Error ==
  /\ panic = "none"
  /\ ppc = "select"
  /\ errors > 0 \/ closed
  /\ errors' = IF errors > 0 THEN errors - 1 ELSE errors
  /\ UNCHANGED <<lvars, workers, workerDone, ws, events, closed, pvars, rvars, panic, budget, unit>>

\* All sequences without repetition of at most n elements of S.
RECURSIVE Batches(_, _)
Batches(S, n) ==
  IF n <= 0 \/ S = {} THEN {<<>>}
  ELSE {<<>>} \cup UNION { { <<m>> \o b : b \in Batches(S \ {m}, n - 1) } : m \in S }

Min(a, b) == IF a < b THEN a ELSE b

\* default: resp, err := p.sqsClient.ReceiveMessage(params)
\* taken only when neither p.done nor p.errors is ready; the call returns
\* some of the visible messages
P_Receive ==
  /\ panic = "none"
  /\ ppc = "select"
  /\ pdone = 0 /\ errors = 0 /\ ~closed
  /\ \E b \in Batches(visible, Min(MaxBatch, budget.deliveries)) :
       LET got == {b[i] : i \in 1..Len(b)} IN
       /\ batch' = b
       /\ ppc' = IF b = <<>> THEN "select" ELSE "batch"
       /\ visible' = visible \ got
       /\ inflight' = inflight \cup got
       /\ budget' = [budget EXCEPT !.deliveries = @ - Len(b)]
  /\ UNCHANGED unit
  /\ UNCHANGED <<lvars, workers, workerDone, ws, events, errors, closed, pdone, panic>>

\* ReceiveMessage returns a transport error
P_ReceiveFail ==
  /\ panic = "none"
  /\ ppc = "select"
  /\ pdone = 0 /\ errors = 0 /\ ~closed
  /\ budget.faults > 0
  /\ Spend("faults")
  /\ ppc' = "recvErr"
  /\ UNCHANGED <<lvars, workers, workerDone, ws, events, errors, closed, pdone, batch, rvars, panic>>

\* Where the poll loop goes once it has sent a transport error: continue.
AfterReceiveError == "select"

\* if err != nil { p.errors <- err; continue }: blocks while the buffer is full
P_ReceiveErr ==
  /\ panic = "none"
  /\ ppc = "recvErr"
  /\ ~closed
  /\ errors < ErrorsBuffer
  /\ errors' = errors + 1
  /\ ppc' = AfterReceiveError
  /\ UNCHANGED <<lvars, workers, workerDone, ws, events, closed, pdone, batch, rvars, panic, budget, unit>>

\* What is left of the batch after a decode error of its first message:
\* continue with the next message.
AfterDecodeError(rest) == rest

\* The poll loop after one iteration over the batch.
PollNext(rest) ==
  /\ batch' = rest
  /\ ppc' = IF rest = <<>> THEN "select" ELSE "batch"

P_Publish_Unbounded ==
  /\ panic = "none"
  /\ ppc = "batch"
  /\ ~DecodeFails(Head(batch))
  /\ ~closed
  /\ events' = Append(events, DecodeEvent(Head(batch)))
  /\ PollNext(Tail(batch))
  /\ UNCHANGED <<lvars, workers, workerDone, ws, errors, closed, pdone, rvars, panic, budget, unit>>

\* for _, msg := range resp.Messages: DecodeEvent succeeds, p.events <- *event
\* (blocks while the buffer is full)
P_Publish ==
  /\ panic = "none"
  /\ ppc = "batch"
  /\ ~DecodeFails(Head(batch))
  /\ ~closed
  /\ Len(events) < EventsBuffer
  /\ events' = Append(events, DecodeEvent(Head(batch)))
  /\ PollNext(Tail(batch))
  /\ UNCHANGED <<lvars, workers, workerDone, ws, errors, closed, pdone, rvars, panic, budget, unit>>

\* for _, msg := range resp.Messages: DecodeEvent fails, p.errors <- err;
\* continue (blocks while the buffer is full)
P_DecodeErr ==
  /\ panic = "none"
  /\ ppc = "batch"
  /\ DecodeFails(Head(batch))
  /\ ~closed
  /\ errors < ErrorsBuffer
  /\ errors' = errors + 1
  /\ PollNext(AfterDecodeError(Tail(batch)))
  /\ UNCHANGED <<lvars, workers, workerDone, ws, events, closed, pdone, rvars, panic, budget, unit>>

\* A send of the poll loop on a channel that Stop has closed
P_SendClosed ==
  /\ panic = "none"
  /\ ppc \in {"recvErr", "batch"}
  /\ closed
  /\ Crash(IF ppc = "batch" /\ ~DecodeFails(Head(batch)) THEN "events" ELSE "errors")

(* ---------------------------- remote queue ---------------------------- *)
\* The event of message m is somewhere between the poll loop and the end of
\* a worker's dispatch.
InPipeline(m) ==
  \/ \E i \in 1..Len(batch) : batch[i] = m
  \/ \E i \in 1..Len(events) : events[i] = DecodeEvent(m)
  \/ \E w \in Running : w.ev = DecodeEvent(m) /\ w.pc \in InLoop

\* The visibility timeout of a received message expires before it was
\* deleted: the remote queue makes it available again.
VisibilityTimeout ==
  /\ budget.deliveries > 0
  /\ \E m \in inflight :
       /\ ~InPipeline(m)
       /\ inflight' = inflight \ {m}
       /\ visible' = visible \cup {m}
  /\ UNCHANGED <<lvars, workers, workerDone, ws, events, errors, closed, pvars, panic, budget, unit>>

(* --------------------------- specification ---------------------------- *)
Boot ==
  /\ handlers = <<>>
  /\ errorHandler = "nil"
  /\ ldone = 0
  /\ lpc = "setup"
  /\ max = 0
  /\ workers = 0
  /\ workerDone = 0
  /\ ws = EmptyBag
  /\ events = <<>>
  /\ errors = 0
  /\ closed = FALSE
  /\ pdone = 0
  /\ ppc = "off"
  /\ batch = <<>>
  /\ visible = budget.msgs
  /\ inflight = {}
  /\ panic = "none"
  /\ unit = NoCall

Init == budget \in Scenarios /\ Boot

Workers ==
  \/ \E w \in Running : W_Inc(w)
  \/ \E w \in Running : W_IncRead(w)
  \/ \E w \in Running : W_IncWrite(w)
  \/ \E w \in Running : W_Receive(w)
  \/ \E w \in Running : W_Closed(w)
  \/ \E w \in Running : W_Delete(w)
  \/ \E w \in Running : W_DeleteFail(w)
  \/ \E w \in Running : W_RequeueSend(w)
  \/ \E w \in Running : W_RequeueSendFail(w)
  \/ \E w \in Running : W_SendError(w)
  \/ \E w \in Running : W_SendErrorClosed(w)
  \/ \E w \in Running : W_Signal(w)
  \/ \E w \in Running : W_Dec(w)
  \/ \E w \in Running : W_DecRead(w)
  \/ \E w \in Running : W_DecWrite(w)

Setup == RegisterHandler("a") \/ RegisterErrorHandler

Supervisor == Listen \/ L_WorkerDone \/ L_Halt

PollLoop ==
  \/ P_Done \/ P_Error \/ P_Receive \/ P_ReceiveFail \/ P_ReceiveErr
  \/ P_Publish \/ P_DecodeErr \/ P_SendClosed

Next == Setup \/ Supervisor \/ Halt \/ Workers \/ PollLoop \/ VisibilityTimeout

Spec == Init /\ [][Next]_vars

TypeOK ==
  /\ lpc \in {"setup", "ready", "select", "returned", "crashed"}
  /\ ppc \in {"off", "select", "recvErr", "batch", "returned", "crashed"}
  /\ workerDone \in 0..max
  /\ errors \in 0..ErrorsBuffer
  /\ Len(events) <= EventsBuffer
  /\ budget.deliveries >= 0 /\ budget.faults >= 0
  /\ budget.races >= 0 /\ budget.halts >= 0

(* ------------------- a pool slower than the poll loop ----------------- *)
\* The workers are slow and the remote queue's visibility timeout is short:
\* the timeout of a received message expires while its event still waits in
\* the stream's buffer, and the remote queue hands the message out again.
VisibilityTimeoutBuffered ==
  /\ budget.deliveries > 0
  /\ \E m \in inflight :
       /\ DecodeEvent(m) \in {events[i] : i \in 1..Len(events)}
       /\ inflight' = inflight \ {m}
       /\ visible' = visible \cup {m}
  /\ UNCHANGED <<lvars, workers, workerDone, ws, events, errors, closed, pvars, panic, budget, unit>>

\* One message that no handler fails on, one registered name (four workers),
\* and enough deliveries to fill the stream's buffer and go on.
StreamScenario ==
  Scenario({Unhandled}, 1, EventsBuffer + MaxBatch, 0, 0, 0)

StreamInit == budget = StreamScenario /\ Boot

\* The steps the program can take in this run: no remote call fails, no
\* counter update is torn, no handler fails and nobody halts the listener.
StreamNext ==
  \/ Setup
  \/ Listen
  \/ \E w \in Running : W_Inc(w)
  \/ \E w \in Running : W_Receive(w)
  \/ \E w \in Running : W_Delete(w)
  \/ P_Receive
  \/ P_Publish
  \/ VisibilityTimeoutBuffered

StreamSpec == StreamInit /\ [][StreamNext]_vars

(* ------------------- functions examined on their own ------------------ *)
\* Each run makes one call: a function is applied to one input.
\* Retry counts of the events handed to DelaySeconds and Requeue.
RetryCounts == ((-1)..MaxRetryInput) \cup {GoMaxInt}

\* RetryCount attribute values: decimal strings, and strings Atoi rejects.
RetryStrings ==
  {Itoa(n) : n \in RetryCounts \cup {GoMinInt}}
    \cup {<<>>, <<"x">>, <<"1", "x">>, <<"-">>, <<"+", "3">>, <<"0", "0", "7">>,
          <<"2", "1", "4", "7", "4", "8", "3", "6", "4", "8">>}

RetryAttributes ==
  {NoAttribute, BinaryAttribute} \cup {StringAttribute(s) : s \in RetryStrings}

DataText == JObj(<<<<"k", JStr("v")>>>>)

\* Inner JSON texts: an event in canonical form, and texts that differ from
\* it in member order, key case, unknown or repeated members, null or
\* missing members; then texts that are no encodedEvent.
InnerTexts ==
  { JObj(<<<<"name", JStr("E")>>, <<"data", DataText>>>>),
    JObj(<<<<"data", DataText>>, <<"name", JStr("E")>>>>),
    JObj(<<<<"name", JStr("E")>>, <<"extra", JNum("1")>>, <<"data", DataText>>>>),
    JObj(<<<<"NAME", JStr("E")>>, <<"Data", DataText>>>>),
    JObj(<<<<"name", JStr("E")>>, <<"data", JNull>>>>),
    JObj(<<<<"name", JStr("E")>>>>),
    JObj(<<<<"name", JStr("X")>>, <<"name", JStr("E")>>>>),
    JObj(<<<<"name", JStr("E")>>,
           <<"data", JObj(<<<<"l", JNull>>, <<"k", JNum("1")>>, <<"k", JStr("v")>>>>)>>>>),
    JObj(<<<<"data", DataText>>, <<"data", JObj(<<<<"l", JNum("2")>>>>)>>>>),
    JObj(<<<<"data", DataText>>, <<"data", JNull>>>>),
    JObj(<<<<"name", JStr("E")>>, <<"data", JObj(<<<<"k", DataText>>>>)>>>>),
    JObj(<<>>),
    JNull,
    JGarbage,
    JEmpty,
    JStr("E"),
    JObj(<<<<"name", JNum("1")>>>>),
    JObj(<<<<"name", JStr("E")>>, <<"data", JStr("v")>>>>) }

\* Message bodies: each inner text wrapped as {"Message": "..."} under either
\* spelling of the key, and bodies that are no encodedMessage.
Bodies ==
  {JObj(<<<<k, JText(i)>>>>) : k \in {"Message", "message"}, i \in InnerTexts}
    \cup {JObj(<<<<"extra", JNum("1")>>, <<"Message", JText(i)>>>>) : i \in InnerTexts}
    \cup { JGarbage, JEmpty, JNull, JObj(<<>>),
           JObj(<<<<"Message", JNum("1")>>>>),
           JObj(<<<<"Message", JStr("plain")>>>>) }

\* Events handed to DelaySeconds, EncodeEvent and Requeue.
FullEvents ==
  {FullEvent("E", d, r, "h", dd) :
     d \in {NilMap, GoValue(DataText)}, r \in RetryCounts,
     dd \in {NilString, StringPtr("1234")}}

Configs ==
  {NilConfig} \cup
  {Config(c, u, m) : c \in {"nil", "mock"}, u \in {"", "queue"},
                     m \in (-1)..(ConfigMaximumRetryCount + 1)}

U_NewProvider ==
  /\ unit = NoCall
  /\ \E c \in Configs :
       unit' = [op |-> "NewProvider", arg |-> c, out |-> NewProvider(c)]
  /\ UNCHANGED mvars

U_DecodeEvent ==
  /\ unit = NoCall
  /\ \E a \in RetryAttributes, b \in Bodies, dd \in {NilString, StringPtr("1234")} :
       LET m == RawMessage("h", dd, a, b) IN
       unit' = [op |-> "DecodeEvent", arg |-> m, out |-> DecodeEventFull(m)]
  /\ UNCHANGED mvars

\* DecodeEvent, then EncodeEvent of its event, then DecodeEvent of that body.
U_RoundTrip ==
  /\ unit = NoCall
  /\ \E b \in Bodies :
       LET first == DecodeEventFull(RawMessage("h", NilString, NoAttribute, b))
           body == IF first.outcome = "event" THEN EncodeEvent(first.event) ELSE JEmpty
       IN unit' = [op |-> "RoundTrip", arg |-> b, first |-> first, body |-> body,
                   out |-> DecodeEventFull(RawMessage("h", NilString, NoAttribute, body))]
  /\ UNCHANGED mvars

\* DelaySeconds of an event, and of the event with the retry count before.
U_DelaySeconds ==
  /\ unit = NoCall
  /\ \E e \in FullEvents :
       unit' = [op |-> "DelaySeconds", arg |-> e, out |-> DelaySeconds(e),
                before |-> IF e.retryCount > 0
                           THEN DelaySeconds([e EXCEPT !.retryCount = @ - 1])
                           ELSE DelaySeconds(e)]
  /\ UNCHANGED mvars

U_Requeue ==
  /\ unit = NoCall
  /\ \E e \in FullEvents :
       unit' = [op |-> "Requeue", arg |-> e, out |-> SendMessageInput(e)]
  /\ UNCHANGED mvars

UnitInit == budget = Scenario({}, 0, 0, 0, 0, 0) /\ Boot

UnitNext == U_NewProvider \/ U_DecodeEvent \/ U_RoundTrip \/ U_DelaySeconds \/ U_Requeue

UnitSpec == UnitInit /\ [][UnitNext]_vars

(* ------------------------------ claims -------------------------------- *)
\* Worker goroutines that have not returned from l.worker: launched, in the
\* loop, or about to send their completion signal.
Active == {"start", "incW", "signal"} \cup InLoop
RunningWorkers == CountAt(Active)

\* C1: a worker whose handlers failed for an event with retryCount <=
\* MaximumRetryCount() makes exactly one Provider.Requeue call for it, no
\* Provider.Delete call and no terminal error report.
C1_RequeueOnceUnderCeiling ==
  \A w \in Running :
    (w.res = "fail" /\ w.ev.retryCount <= maximumRetryCount) =>
      /\ w.nReq = 1 /\ w.nDel = 0 /\ w.nRep = 0 /\ w.nCallback = 0
      /\ w.pc \in {"requeue", "rqDelErr", "rqSend", "rqSendErr", "signal"}

\* C1 witness: a worker has finished Provider.Requeue for a failed event
\* whose retryCount equals the ceiling.
C1_Witness ==
  \E w \in Running :
    /\ w.res = "fail" /\ w.ev.retryCount = maximumRetryCount
    /\ w.pc = "signal" /\ w.nReq = 1

\* C2: a worker whose handlers failed for an event with retryCount >
\* MaximumRetryCount() makes no Requeue and no Delete call and reports the
\* terminal condition exactly once through the registered error callback.
C2_TerminalReportOnce ==
  \A w \in Running :
    (w.res = "fail" /\ w.ev.retryCount > maximumRetryCount /\ w.pc = "signal") =>
      w.nReq = 0 /\ w.nDel = 0 /\ w.nCallback = 1

\* No halt is under way and nothing is left that could make the supervisor
\* launch a worker: no completion signal is buffered or about to be sent,
\* and no goroutine is starting or finishing.
Quiescent ==
  /\ lpc = "select" /\ ldone = 0 /\ ~closed
  /\ workerDone = 0
  /\ CountAt({"start", "incW", "signal", "decR", "decW"}) = 0

\* C3: after worker exits caused by handler failures the supervisor brings
\* the pool back to capacity: once the exits have been dealt with, the
\* number of workers in the loop is the capacity again.
C3_PoolRefilled == Quiescent => CountAt(InLoop) = max

\* C4: the number of running worker tasks never exceeds 4 x (number of
\* distinct registered names); it is zero when no handler is registered.
C4_PoolWithinCapacity ==
  RunningWorkers <= 4 * Cardinality(DOMAIN handlers)

\* C4 witness: a replacement worker has been launched while the rest of the
\* pool is running: the pool is at its capacity of 4 again.
C4_Witness ==
  /\ lpc = "select" /\ max = 4
  /\ RunningWorkers = 4
  /\ CountAt({"start"}) > 0
  /\ CountAt({"decR", "decW"}) > 0

\* C5: once Provider.Stop() has been called nothing is sent on the event
\* stream or on the error stream (a send on the closed channel).
C5_NoSendAfterStop == panic \notin {"events", "errors"}

\* The poll loop is inside p.errors <- err.
PollInErrorSend ==
  \/ ppc = "recvErr"
  \/ ppc = "batch" /\ DecodeFails(Head(batch))

\* Nothing can take the buffered error out of p.errors any more: the buffer
\* is full and its only reader, the poll loop's select, is not reached
\* because the poll loop itself waits to send.
ErrorsWedged == ~closed /\ errors = ErrorsBuffer /\ PollInErrorSend

\* C6: a transport error of ReceiveMessage does not end the polling: the
\* error is published and the loop goes on to further receive calls, so it
\* is never stuck for good in the send of that error.
C6_ReceiveErrorNotFatal == ~(ppc = "recvErr" /\ ErrorsWedged)

\* C7: a decode failure does not keep a later message of the same batch from
\* being decoded and published, also when two or more messages of the batch
\* are malformed: the loop is never stuck for good in the send of a decode
\* error while a valid message of the batch waits behind it.
C7_BatchSurvivesDecodeErrors ==
  ~(/\ ppc = "batch"
    /\ ErrorsWedged
    /\ \E i \in 2..Len(batch) : ~DecodeFails(batch[i]))

\* C8: a worker whose Delete or Requeue met a remote failure is never
\* blocked for good in surfacing the error on the error stream.
C8_ErrorSendNeverBlocks ==
  ~(ErrorsWedged /\ \E w \in Running : w.pc \in ErrorSends)

\* C9: with a handler registered and no halt, every event published on the
\* event stream is eventually consumed by a worker: an event is never left
\* in the stream with no worker alive and none to be launched.
C9_NoStrandedEvent ==
  ~(/\ events # <<>>
    /\ max > 0
    /\ lpc = "select" /\ ldone = 0 /\ ~closed
    /\ workerDone = 0
    /\ ws = EmptyBag)

\* C10: a worker whose handlers all succeeded for an event calls
\* Provider.Delete for it exactly once, makes no Requeue call and no
\* terminal report, and does not take the exit path: it is inside Delete and
\* from there goes back to its select.
C10_DeleteOnceOnSuccess ==
  \A w \in Running :
    w.res = "ok" =>
      /\ w.nDel = 1 /\ w.nReq = 0 /\ w.nRep = 0 /\ w.nCallback = 0
      /\ w.pc \in {"delete", "deleteErr"}
      /\ Returned(w) = Idle

\* C10 witness: a worker is in Provider.Delete for an event of a name that
\* has handlers, all of which succeeded.
C10_Witness ==
  \E w \in Running :
    /\ w.res = "ok" /\ w.pc = "delete" /\ w.nDel = 1
    /\ w.ev.name \in DOMAIN handlers

\* C11: an event whose name has no registered handler is a success: no
\* handler is invoked, the worker calls Provider.Delete for it, and makes no
\* Requeue call and no error report.
C11_NoHandlerIsSuccess ==
  \A w \in Running :
    (w.ev # NoEvent /\ w.ev.name \notin DOMAIN handlers) =>
      /\ w.called = <<>> /\ w.err = 0 /\ w.res = "ok"
      /\ w.nDel = 1 /\ w.nReq = 0 /\ w.nRep = 0 /\ w.nCallback = 0
      /\ w.pc \in {"delete", "deleteErr"}

\* C11 witness: while handlers exist for another name, a worker is in
\* Provider.Delete for an event of a name without handlers.
C11_Witness ==
  \E w \in Running :
    /\ w.ev.name = "b" /\ "b" \notin DOMAIN handlers /\ "a" \in DOMAIN handlers
    /\ w.pc = "delete" /\ w.nDel = 1

\* C12: the handlers of an event's name are invoked one after the other in
\* the order of their registration (a handler is named by its rank of
\* registration), and the first failure ends the dispatch: the failing
\* handler is the last one invoked and its failure is the result; without a
\* failure all of them are invoked.
C12_RegistrationOrderShortCircuit ==
  \A w \in Running :
    (w.ev # NoEvent /\ w.ev.name \in DOMAIN handlers) =>
      LET n == Len(handlers[w.ev.name])
          k == Len(w.called)
      IN /\ k \in 1..n
         /\ \A i \in 1..k : w.called[i] = i
         /\ w.err = 0 => (k = n /\ w.res = "ok")
         /\ w.err # 0 => (w.err = w.called[k] /\ w.res = "fail")

\* C12 witness: with two handlers registered the first one failed and the
\* second was not invoked.
C12_Witness ==
  \E w \in Running :
    /\ w.ev.name \in DOMAIN handlers
    /\ Len(handlers[w.ev.name]) = 2
    /\ w.called = <<1>> /\ w.err = 1 /\ w.res = "fail"


\* C13: the message Provider.Requeue sends for an event carries a RetryCount
\* attribute equal to the event's retryCount + 1 and never a smaller value,
\* the event's deduplication key when it has one and none otherwise, the
\* body EncodeEvent gives for the event, and the delay DelaySeconds gives
\* for the event as it is before the increment.
C13_RequeueMessageContent ==
  unit.op = "Requeue" =>
    LET e == unit.arg
        sent == Atoi(unit.out.RetryCount.s)
    IN /\ ~sent.err
       /\ sent.n > e.retryCount
       /\ sent.n - 1 = e.retryCount
       /\ unit.out.MessageDeduplicationId = e.deduplicationID
       /\ unit.out.MessageBody = EncodeEvent(e)
       /\ unit.out.DelaySeconds = DelaySeconds(e)

\* C14: for every event with retryCount r >= 0, DelaySeconds() is
\* min(2^(r+1), 900): at least 2, at most 900, and not below the delay of
\* r - 1.
C14_DelaySecondsFormula ==
  (unit.op = "DelaySeconds" /\ unit.arg.retryCount >= 0) =>
    LET r == unit.arg.retryCount IN
    /\ unit.out >= 2
    /\ unit.out <= 900
    /\ unit.before <= unit.out
    /\ unit.out = IF r >= 30 THEN 900 ELSE Min(2 ^ (r + 1), 900)

\* Decimal strings that denote an integer: an optional sign and digits.
IsInteger(s) ==
  LET digits == IF s # <<>> /\ Head(s) \in {"-", "+"} THEN Tail(s) ELSE s
  IN digits # <<>> /\ \A i \in 1..Len(digits) : digits[i] \in DOMAIN DigitValue

\* C16: DecodeEvent gives retryCount 0 when the message has no RetryCount
\* attribute, the parsed integer when the attribute parses, a decode error
\* and no event when the attribute is present and does not parse as an
\* integer; a decoded retryCount is never negative.
C16_DecodeRetryCount ==
  unit.op = "DecodeEvent" =>
    LET a == unit.arg.RetryCount
        o == unit.out
    IN /\ (a.kind = "absent" /\ o.outcome = "event") => o.event.retryCount = 0
       /\ (a.kind = "string" /\ o.outcome = "event") =>
            Atoi(a.s) = [err |-> FALSE, n |-> o.event.retryCount]
       /\ (a.kind = "nilString" \/ (a.kind = "string" /\ ~IsInteger(a.s))) =>
            o.outcome = "error"
       /\ o.outcome = "event" => o.event.retryCount >= 0

\* C18: for every body that decodes, decoding it and encoding the event with
\* EncodeEvent gives a body that decodes again, to the same name and data.
C18_EncodeDecodeRoundTrip ==
  (unit.op = "RoundTrip" /\ unit.first.outcome = "event") =>
    /\ unit.out.outcome = "event"
    /\ unit.out.event.name = unit.first.event.name
    /\ unit.out.event.data = unit.first.event.data

\* C18 witness: a body that is not in the form EncodeEvent writes (key
\* spelling, member order, repeated members) has made the round trip with a
\* name and a non-empty data map.
C18_Witness ==
  /\ unit.op = "RoundTrip"
  /\ unit.first.outcome = "event"
  /\ unit.body # unit.arg
  /\ unit.first.event.name = "E"
  /\ unit.first.event.data # NilMap
  /\ unit.out.outcome = "event"

\* C19: NewProvider returns an error and no Provider for a nil configuration
\* or an empty QueueURL, and a Provider and no error for a non-empty
\* QueueURL, with or without a client.
C19_NewProviderFailsFast ==
  unit.op = "NewProvider" =>
    LET bad == IF unit.arg = NilConfig THEN TRUE ELSE unit.arg.QueueURL = ""
    IN IF bad
       THEN unit.out.err # "nil" /\ unit.out.provider = NilProvider
       ELSE unit.out.err = "nil" /\ unit.out.provider # NilProvider
                                 /\ unit.out.provider.queueURL = unit.arg.QueueURL

\* C19 witness: a configuration without a client and with an empty QueueURL
\* was refused.
C19_Witness ==
  /\ unit.op = "NewProvider"
  /\ unit.arg # NilConfig
  /\ unit.arg.QueueURL = "" /\ unit.arg.SQSClient = "nil"
  /\ unit.out.provider = NilProvider

\* C15: on the halt signal Listen calls Provider.Stop() once and returns:
\* the step in which Listen returns is the one step that closes the streams
\* and signals p.done, it takes a halt signal, it leaves every worker where
\* it is, and nothing stops the Provider before or after it.
C15_HaltStopsOnceThenReturns ==
  [][ /\ (lpc # "returned" /\ lpc' = "returned") =>
           /\ lpc = "select" /\ ldone > 0 /\ ldone' = ldone - 1
           /\ ~closed /\ closed' /\ pdone' = pdone + 1
           /\ ws' = ws
      /\ (closed' # closed \/ pdone' > pdone) =>
           (lpc = "select" /\ lpc' = "returned")
      /\ lpc = "returned" => lpc' \in {"returned", "crashed"}
    ]_vars

\* C15 witness: Listen has returned after Stop while a worker is still in
\* the middle of an event.
C15_Witness ==
  /\ lpc = "returned" /\ closed
  /\ \E w \in Running : w.pc \in {"delete", "requeue", "rqSend"}

\* A message whose decode fails: unparsable RetryCount, or a malformed JSON
\* layer.
Malformed(m) == m.attr = "bad" \/ m.body # "ok"

\* C17: a message whose decode fails is never acknowledged: it stays in the
\* remote queue, nothing is sent again for it, and no event of it is
\* published or reaches a worker.
C17_DecodeFailureNotAcknowledged ==
  \A m \in budget.msgs :
    Malformed(m) =>
      /\ m \in visible \cup inflight
      /\ \A x \in visible \cup inflight : x.id = m.id => x = m
      /\ \A i \in 1..Len(events) : events[i].id # m.id
      /\ \A w \in Running : w.ev.id # m.id

\* C17 witness: the poll loop has published the decode error of a received
\* malformed message and has gone past it; the message is still in flight.
C17_Witness ==
  /\ budget.faults = 0 /\ errors = ErrorsBuffer
  /\ \E m \in inflight :
       /\ Malformed(m)
       /\ \A i \in 1..Len(batch) : batch[i] # m

\* C20: once both remote calls of Provider.Requeue are over for an event, the
\* event is still in the remote queue, as the original delivery or as the
\* message sent again, whatever the outcome of the delete and of the send.
C20_RequeueNeverLoses ==
  \A w \in Running :
    w.pc = "rqSendErr" => \E m \in visible \cup inflight : m.id = w.ev.id
\* Number of workers that have returned on the closed stream and whose
\* goroutine has not ended yet.
ClosedExits ==
  LET RECURSIVE Sum(_)
      Sum(T) == IF T = {} THEN 0
                ELSE LET w == CHOOSE x \in T : TRUE
                     IN CopiesIn(w, ws) + Sum(T \ {w})
  IN Sum({w \in Running : w.res = "closed"})

Exited == CountAt({"decR", "decW"})

\* C22: once Listen has taken the halt signal and called Provider.Stop() no
\* worker is launched any more, and every worker still running goes on until
\* it exits: the events buffered in the closed stream are taken one by one
\* by workers, and a running worker ceases to run only by returning from
\* l.worker.
C22_NoLaunchAndWorkersExitAfterStop ==
  [][ closed =>
        /\ CountAt({"start"})' <= CountAt({"start"})
        /\ events' # events => events' = Tail(events)
        /\ RunningWorkers' < RunningWorkers => Exited' > Exited
    ]_vars

\* C23: after Provider.Stop() the poll loop terminates by taking the done
\* signal in its select: whatever it does next, it ends up returned, and
\* once it has returned it makes no remote receive call (nothing more is
\* handed out by the remote queue, no batch is held).
C23_PollLoopReturnsAfterStop ==
  [][ closed =>
        /\ ppc' # ppc => (ppc = "select" /\ pdone > 0 /\ ppc' = "returned")
        /\ ppc = "returned" =>
              (batch' = <<>> /\ budget.deliveries' = budget.deliveries)
    ]_vars

\* The poll loop is inside p.events <- *event.
PollInPublish == ppc = "batch" /\ ~DecodeFails(Head(batch))

\* C24: the event stream never holds more than 100 events.  The poll loop's
\* publish goes through whenever fewer than 100 are buffered and appends its
\* event at the end; with 100 buffered the poll loop stays in its publish,
\* holding its batch, until a worker has taken an event; a worker takes the
\* first event of the buffer; nothing else changes the buffer.
C24_EventStreamBounded ==
  [][ /\ Len(events) <= EventsBuffer /\ Len(events') <= EventsBuffer
      /\ (PollInPublish /\ Len(events) < EventsBuffer) => ENABLED P_Publish
      /\ (PollInPublish /\ Len(events) = EventsBuffer) =>
            /\ batch' = batch /\ ppc' = ppc
            /\ events' # events => (PollInPublish' /\ Len(events') < EventsBuffer)
      /\ events' # events =>
            \/ /\ events # <<>> /\ events' = Tail(events)
               /\ CountAt({"select"})' = CountAt({"select"}) - 1
               /\ batch' = batch
            \/ /\ PollInPublish /\ Len(events) < EventsBuffer
               /\ events' = Append(events, DecodeEvent(Head(batch)))
               /\ batch' = Tail(batch)
    ]_vars

\* C24 witness: 100 events are buffered, the poll loop is in the publish of
\* the next one, and a worker that has taken and deleted an event is about
\* to take another.
C24_Witness ==
  /\ Len(events) = EventsBuffer
  /\ PollInPublish
  /\ CountAt({"select"}) > 0
  /\ budget.deliveries < MaxBatch - 1

\* Number of workers that hold an event they received from the stream.
Handling ==
  LET RECURSIVE Sum(_)
      Sum(T) == IF T = {} THEN 0
                ELSE LET w == CHOOSE x \in T : TRUE
                     IN CopiesIn(w, ws) + Sum(T \ {w})
  IN Sum({w \in Running : w.ev # NoEvent})

\* C25: a published event leaves the stream by being received by exactly
\* one worker (one more worker holds an event, and it holds that event); a
\* worker comes to hold an event in no other way; and a worker that holds an
\* event has made exactly one of the three outcome calls for it
\* (Provider.Delete, Provider.Requeue, the terminal error report).
C25_OneWorkerOneOutcome ==
  [][ /\ (events # <<>> /\ events' = Tail(events) /\ panic' = "none") =>
            /\ Handling' = Handling + 1
            /\ \E w \in BagToSet(ws') :
                 /\ w.ev = Head(events)
                 /\ CopiesIn(w, ws') = CopiesIn(w, ws) + 1
      /\ Handling' > Handling =>
            /\ events # <<>> /\ events' = Tail(events)
            /\ Handling' = Handling + 1
      /\ \A w \in BagToSet(ws') :
            w.ev # NoEvent =>
              /\ w.nDel + w.nReq + w.nRep = 1
              /\ w.nDel = 1 <=> w.res = "ok"
              /\ w.nReq = 1 <=> (w.res = "fail" /\ MayRequeue(w.ev))
    ]_vars

\* C25 witness: two workers handle two different events at the same time,
\* one inside Provider.Delete and one inside Provider.Requeue.
C25_Witness ==
  \E v, w \in Running :
    /\ v.ev # NoEvent /\ w.ev # NoEvent /\ v.ev # w.ev
    /\ v.nDel = 1 /\ v.pc = "delete"
    /\ w.nReq = 1 /\ w.pc \in {"requeue", "rqSend"}

\* C26: the completion signals buffered in workerDone plus the workers that
\* are running never exceed the pool capacity, which is the capacity of
\* workerDone; so whenever a worker is at its completion signal the channel
\* has room for it, also after Listen has returned on a halt.
C26_SignalsPlusWorkersWithinCapacity ==
  /\ workerDone + RunningWorkers <= Capacity
  /\ lpc \in {"select", "returned"} => max = Capacity
  /\ CountAt({"signal"}) > 0 => workerDone < max

\* C26 witness: Listen has returned on a halt, a completion signal it never
\* took is buffered, and another worker is at its completion signal.
C26_Witness ==
  /\ lpc = "returned" /\ panic = "none"
  /\ workerDone > 0
  /\ CountAt({"signal"}) > 0

\* The messages of the remote queue that carry a RetryCount attribute.
\* Provider.Requeue sends retryCount+1, so along a chain of redeliveries that
\* starts at 0 the attribute of a message is the number of Requeue calls
\* that led to it.
Requeued == {m \in visible \cup inflight : m.attr = "num"}

\* C27: retries are bounded.  Every Requeue call is made for a delivery
\* whose retryCount is at most MaximumRetryCount(), so a chain that starts at
\* 0 has at most MaximumRetryCount()+1 of them; no message with a RetryCount
\* attribute above MaximumRetryCount()+1 is ever sent; and a failed delivery
\* with retryCount = MaximumRetryCount()+1 gets the terminal report and no
\* Requeue.
C27_RetriesBounded ==
  /\ \A m \in Requeued : m.rc <= MaximumRetryCount + 1
  /\ \A w \in Running :
       /\ w.nReq = 1 => w.ev.retryCount <= MaximumRetryCount
       /\ (w.res = "fail" /\ w.ev.retryCount = MaximumRetryCount + 1) =>
            (w.nReq = 0 /\ w.nDel = 0 /\ w.nRep = 1 /\ w.pc = "signal")

\* C27 witness: the chain of the message first delivered with retryCount 0
\* has come to its end: its delivery with retryCount MaximumRetryCount()+1
\* failed and got the terminal report.
C27_Witness ==
  \E w \in Running :
    /\ w.ev.id = Fresh.id /\ budget.msgs = {Fresh}
    /\ w.res = "fail" /\ w.ev.retryCount = MaximumRetryCount + 1
    /\ w.nRep = 1 /\ w.pc = "signal"

====
